---- MODULE Spec2Model ----
(***************************************************************************)
(* Order approval workflow of the orders app (src/orders).                 *)
(*                                                                         *)
(* The relational store is modelled table by table: orders, items,         *)
(* quotes (QuoteOption), quoteItems (QuoteOptionItem), approvals           *)
(* (OrderApproval, the ledger), activities (OrderActivity) and             *)
(* notifications (OrderNotification).  Every endpoint of OrderViewSet that  *)
(* the workflow uses is an operator X_view from the database and the       *)
(* request to the new database and the response; it covers the permission  *)
(* check, get_object, the validation, and the transaction.atomic() block.  *)
(* The action X is the step of a call that was answered 2xx; a refused     *)
(* call (4xx, 5xx) is answered by X_view with the database it was given.   *)
(* resp is the last 2xx response.                                          *)
(*                                                                         *)
(* Abstractions: free-text columns that no handler branches on (title,     *)
(* description, unit, urgency, quantity, notes and approver of ledger      *)
(* rows, the acting user of activity rows, timestamps) are left out; a     *)
(* DateTime column is kept as "set / not set"; money is an integer number  *)
(* of the smallest currency unit; an order number PREFIX-YEAR-NNNN is the  *)
(* pair (prefix, NNNN) of one calendar year.                               *)
(***************************************************************************)
EXTENDS Integers, Sequences, FiniteSets, TLC

VARIABLES orders, items, quotes, quoteItems, approvals, activities,
          notifications, nextQuoteId, nextQuoteItemId, resp, inflight

vars == <<orders, items, quotes, quoteItems, approvals, activities,
          notifications, nextQuoteId, nextQuoteItemId, resp, inflight>>

dbvars == <<orders, items, quotes, quoteItems, approvals, activities,
            notifications, nextQuoteId, nextQuoteItemId>>

(***************************************************************************)
(* Bounds of the model.                                                    *)
(***************************************************************************)
MaxOrders == 3          \* rows of the orders table
MaxActivities == 6      \* rows of the activity log
MaxItems == 2           \* items of one create request
MaxCreated == 1         \* orders made by create requests

(***************************************************************************)
(* Optional (nullable) columns.                                            *)
(***************************************************************************)
None == <<>>
Some(x) == <<x>>

(***************************************************************************)
(* The user directory: one user per role that the order endpoints name.    *)
(***************************************************************************)
Users == {"vet", "mgr", "proc", "fin", "root"}

UserRole == [vet |-> "head_veterinary", mgr |-> "manager",
             proc |-> "procurement", fin |-> "finance_manager",
             root |-> "super_admin"]

\* User.Meta.ordering = ['role', 'username']
UserOrder == <<"fin", "vet", "mgr", "proc", "root">>

UsersWithRole(roles) == SelectSeq(UserOrder, LAMBDA u : UserRole[u] \in roles)

NoUser == "none"

(***************************************************************************)
(* Declared choices of the models.                                         *)
(***************************************************************************)
STATUS_CHOICES == {"pending", "approved_by_manager",
                   "procurement_quote_submitted", "quote_approved_by_manager",
                   "payment_completed", "rejected",
                   "revision_requested_by_manager",
                   "revision_requested_by_procurement",
                   "revision_requested_by_finance", "completed", "cancelled"}

ORDER_TYPES == {"medicine", "equipment", "supplies"}

APPROVAL_ACTIONS == {"approved", "rejected", "revision_requested"}

\* order_type.upper()[:3]
Prefix(order_type) == CASE order_type = "medicine" -> "MED"
                        [] order_type = "equipment" -> "EQU"
                        [] OTHER -> "SUP"

max_attempts == 100

(***************************************************************************)
(* The database as one value, so that a handler's transaction is a         *)
(* function from database to database.                                     *)
(***************************************************************************)
DB == [orders |-> orders, items |-> items, quotes |-> quotes,
       quoteItems |-> quoteItems, approvals |-> approvals,
       activities |-> activities, notifications |-> notifications,
       nextQuoteId |-> nextQuoteId, nextQuoteItemId |-> nextQuoteItemId]

Store(d) == /\ orders' = d.orders
            /\ items' = d.items
            /\ quotes' = d.quotes
            /\ quoteItems' = d.quoteItems
            /\ approvals' = d.approvals
            /\ activities' = d.activities
            /\ notifications' = d.notifications
            /\ nextQuoteId' = d.nextQuoteId
            /\ nextQuoteItemId' = d.nextQuoteItemId

OrderIds == DOMAIN orders

ItemsOf(d, o) == {i \in DOMAIN d.items : d.items[i].order = o}

QuotesOf(d, o) == {q \in d.quotes : q.order = o}

\* the result of a view: the database it leaves and its response
Refuse(d, code, error) == [db |-> d, code |-> code, error |-> error]
Done(d, code) == [db |-> d, code |-> code, error |-> ""]

(***************************************************************************)
(* Permissions.                                                            *)
(***************************************************************************)
\* a permission class that lets every authenticated user through
has_permission_any(u, action) == TRUE

has_permission(u, action) ==
    IF UserRole[u] = "super_admin" THEN TRUE
    ELSE IF action \in {"list", "create", "retrieve", "dashboard_stats"} THEN TRUE
    ELSE IF action \in {"manager_approve", "approve_quote", "manager_dashboard"}
         THEN UserRole[u] = "manager"
    ELSE IF action \in {"submit_quote", "procurement_dashboard"}
         THEN UserRole[u] = "procurement"
    ELSE IF action \in {"complete_payment", "finance_dashboard"}
         THEN UserRole[u] = "finance_manager"
    ELSE IF action \in {"submit_revision"}
         THEN UserRole[u] \in {"head_veterinary", "veterinary"}
    ELSE IF action \in {"approve", "reject", "admin_dashboard"}
         THEN UserRole[u] \in {"admin", "manager"}
    ELSE IF action \in {"finance_approve", "finance_reject"}
         THEN UserRole[u] = "finance_manager"
    ELSE FALSE

has_object_permission(d, u, action, o) ==
    LET obj == d.orders[o] IN
    IF UserRole[u] = "super_admin" THEN TRUE
    ELSE IF action = "retrieve" /\ obj.requested_by = u THEN TRUE
    ELSE IF UserRole[u] \in {"admin", "manager"} THEN TRUE
    ELSE IF UserRole[u] = "procurement" /\ obj.status = "approved_by_manager" THEN TRUE
    ELSE IF UserRole[u] = "finance_manager" /\ obj.status = "quote_approved_by_manager"
         THEN TRUE
    ELSE IF action = "submit_revision"
         THEN \/ obj.requested_by = u
              \/ (UserRole[u] \in {"head_veterinary", "veterinary"}
                  /\ obj.order_type = "medicine")
    ELSE FALSE

get_queryset(d, u) ==
    IF UserRole[u] = "super_admin" THEN DOMAIN d.orders
    ELSE IF UserRole[u] \in {"admin", "manager"} THEN DOMAIN d.orders
    ELSE IF UserRole[u] = "finance_manager"
         THEN {o \in DOMAIN d.orders :
                 \/ d.orders[o].status \in {"approved_by_admin", "approved_by_finance",
                                            "completed"}
                 \/ d.orders[o].requested_by = u}
    ELSE {o \in DOMAIN d.orders : d.orders[o].requested_by = u}

\* check_permissions, then get_object: the status code the framework answers
\* before the handler body runs (200: the handler body runs)
Access(d, u, action, o) ==
    IF ~has_permission(u, action) THEN 403
    ELSE IF o \notin get_queryset(d, u) THEN 404
    ELSE IF ~has_object_permission(d, u, action, o) THEN 403
    ELSE 200

AccessError(code) == IF code = 403 THEN "forbidden" ELSE "not_found"

(***************************************************************************)
(* Helpers of views.py.                                                    *)
(***************************************************************************)
\* previous_status / new_status reach log_order_activity through **metadata,
\* so they are stored in the metadata column; the two model columns of the
\* same name keep their default (NULL)
log_order_activity(d, o, u, activity_type, previous_status, new_status) ==
    [d EXCEPT !.activities = Append(@,
        [order |-> o, activity_type |-> activity_type,
         previous_status |-> None, new_status |-> None,
         metadata |-> [previous_status |-> previous_status,
                       new_status |-> new_status]])]

create_notification(d, o, recipient, notification_type) ==
    [d EXCEPT !.notifications = Append(@,
        [order |-> o, recipient |-> recipient,
         notification_type |-> notification_type, event |-> Len(d.activities)])]

RECURSIVE notify_each(_, _, _, _)
notify_each(d, o, recipients, notification_type) ==
    IF recipients = <<>> THEN d
    ELSE notify_each(create_notification(d, o, Head(recipients), notification_type),
                     o, Tail(recipients), notification_type)

\* OrderApproval.objects.update_or_create(order=, stage=, defaults=...)
update_or_create_insert(d, o, stage, approver, action, requires_revision) ==
    [d EXCEPT !.approvals = Append(@,
        [order |-> o, stage |-> stage, action |-> action,
         requires_revision |-> requires_revision])]

update_or_create(d, o, stage, approver, action, requires_revision) ==
    LET row == [order |-> o, stage |-> stage, action |-> action,
                requires_revision |-> requires_revision]
        hit == {i \in DOMAIN d.approvals :
                  d.approvals[i].order = o /\ d.approvals[i].stage = stage}
    IN IF hit # {}
       THEN [d EXCEPT !.approvals = [@ EXCEPT ![CHOOSE i \in hit : TRUE] = row]]
       ELSE [d EXCEPT !.approvals = Append(@, row)]

SeqMax(S) == CHOOSE m \in S : \A x \in S : x <= m

RECURSIVE probe_order_number(_, _, _, _, _)
probe_order_number(d, prefix, count, attempt, timestamp) ==
    IF attempt >= max_attempts THEN [prefix |-> prefix, seq |-> timestamp]
    ELSE IF ~\E o \in DOMAIN d.orders :
               d.orders[o].order_number = [prefix |-> prefix, seq |-> count]
         THEN [prefix |-> prefix, seq |-> count]
    ELSE probe_order_number(d, prefix, count + 1, attempt + 1, timestamp)

generate_order_number(d, order_type, timestamp) ==
    LET prefix == Prefix(order_type)
        existing == {d.orders[o].order_number.seq :
                       o \in {x \in DOMAIN d.orders :
                                d.orders[x].order_number.prefix = prefix}}
        count == IF existing # {} THEN SeqMax(existing) + 1 ELSE 1
    IN probe_order_number(d, prefix, count, 0, timestamp)

\* timezone.now(): the time of a request is the number of activity rows
\* written before it
now(d) == Len(d.activities)

\* a fresh Order row with the column defaults of the model
NewOrder(order_number, order_type, requested_by, status, estimated_cost) ==
    [order_number |-> order_number, order_type |-> order_type,
     requested_by |-> requested_by, status |-> status,
     estimated_cost |-> estimated_cost,
     quote_amount |-> None, quote_supplier |-> None,
     quote_submitted_by |-> NoUser,
     payment_amount |-> None,
     rejection_reason |-> None, revision_reason |-> None,
     revision_requested_by |-> NoUser, revision_requested_at |-> None,
     completion_date |-> FALSE]

\* order.save(): every column of the in-memory object is written to its row
save(d, o, obj) == [d EXCEPT !.orders = [@ EXCEPT ![o] = obj]]

\* transaction.atomic(): an exception inside the block undoes every write
atomic(before, after, raised) == IF raised THEN before ELSE after

\* the atomic block of a handler: it commits d2 and the view answers okcode,
\* or a statement of the block raises, the block is rolled back and the
\* exception leaves the view (500)
Transaction(d, d2, raised, okcode) ==
    IF raised THEN Refuse(atomic(d, d2, TRUE), 500, "server_error")
    ELSE Done(atomic(d, d2, FALSE), okcode)

\* the step of a call of op on order o that was answered r
Call(op, o, r) ==
    /\ r.code < 400
    /\ Len(r.db.orders) <= MaxOrders
    /\ Len(r.db.activities) <= MaxActivities
    /\ Store(r.db)
    /\ resp' = [op |-> op, order |-> o, code |-> r.code]
    /\ UNCHANGED inflight

(***************************************************************************)
(* Inputs.                                                                 *)
(***************************************************************************)
Notes == {"", "fix quantity"}
Timestamps == {7}
Costs == {100}
ItemsData == [k \in 1..(MaxItems + 1) |->
                 [item_name |-> k, estimated_cost |-> Some(50)]]
MinCost == 1            \* Decimal('0.01'), the smallest amount
Requesters == {"vet"}           \* the users that send create requests
CreateTypes == {"medicine"}     \* the order types of create requests

Init ==
    /\ orders = <<>>
    /\ items = <<>>
    /\ quotes = {}
    /\ quoteItems = {}
    /\ approvals = <<>>
    /\ activities = <<>>
    /\ notifications = <<>>
    /\ nextQuoteId = 1
    /\ nextQuoteItemId = 1
    /\ resp = [op |-> "none", order |-> 0, code |-> 0]
    /\ inflight = {}

(***************************************************************************)
(* create / perform_create                                                 *)
(***************************************************************************)
\* OrderItem.objects.create for each item of the request
RECURSIVE create_items(_, _, _)
create_items(d, o, items_data) ==
    IF items_data = <<>> THEN d
    ELSE create_items([d EXCEPT !.items = Append(@,
                          [order |-> o, item_name |-> Head(items_data).item_name,
                           estimated_cost |-> Head(items_data).estimated_cost])],
                      o, Tail(items_data))

\* perform_create after generate_order_number: serializer.save(), the
\* activity row and the notifications
insert_order(d, u, order_type, n, cost, order_number) ==
    LET o == Len(d.orders) + 1
        d1 == [d EXCEPT !.orders = Append(@,
                 NewOrder(order_number, order_type, u, "pending", cost))]
        d2 == create_items(d1, o, SubSeq(ItemsData, 1, n))
        d3 == log_order_activity(d2, o, u, "created", None, None)
    IN notify_each(d3, o, UsersWithRole({"manager", "super_admin"}), "approval_needed")

perform_create(d, u, order_type, n, cost, timestamp) ==
    insert_order(d, u, order_type, n, cost,
                 generate_order_number(d, order_type, timestamp))

create_view(d, u, order_type, n, cost, timestamp, raised) ==
    IF ~has_permission(u, "create")
       THEN Refuse(d, 403, "forbidden")
       ELSE IF n = 0 \/ cost <= 0
       THEN Refuse(d, 400, "validation")
       ELSE Transaction(d, perform_create(d, u, order_type, n, cost, timestamp), raised, 201)

(***************************************************************************)
(* manager_approve                                                         *)
(***************************************************************************)
\* OrderApprovalActionSerializer: is_valid()
OrderApprovalActionSerializer_valid(action, notes) ==
    /\ action \in APPROVAL_ACTIONS
    /\ ~(action \in {"rejected", "revision_requested"} /\ notes = "")

\* the body of the atomic block; obj is the Order object that get_object loaded
manager_approve_tx(d, o, obj, u, action, notes) ==
    IF action = "approved" THEN
        LET d1 == update_or_create(d, o, "manager_initial", u, "approved", FALSE)
            obj1 == [obj EXCEPT !.status = "approved_by_manager"]
            d2 == save(d1, o, obj1)
            d3 == log_order_activity(d2, o, u, "manager_approved",
                                     Some(obj.status), Some(obj1.status))
            d4 == notify_each(d3, o, UsersWithRole({"procurement"}), "approval_needed")
        IN create_notification(d4, o, obj.requested_by, "approved")
    ELSE IF action = "rejected" THEN
        LET d1 == update_or_create(d, o, "manager_initial", u, "rejected", FALSE)
            obj1 == [obj EXCEPT !.status = "rejected",
                                !.rejection_reason = Some(notes)]
            d2 == save(d1, o, obj1)
            d3 == log_order_activity(d2, o, u, "manager_rejected",
                                     Some(obj.status), Some(obj1.status))
        IN create_notification(d3, o, obj.requested_by, "rejected")
    ELSE IF action = "revision_requested" THEN
        LET obj1 == [obj EXCEPT !.status = "revision_requested_by_manager",
                                !.revision_reason = Some(notes),
                                !.revision_requested_by = u,
                                !.revision_requested_at = Some(now(d))]
            d1 == save(d, o, obj1)
            d2 == update_or_create(d1, o, "manager_initial", u, "revision_requested",
                                   TRUE)
            d3 == log_order_activity(d2, o, u, "revision_requested",
                                     Some(obj.status), Some(obj1.status))
        IN create_notification(d3, o, obj.requested_by, "revision_requested")
    ELSE d

\* the part of the view before the atomic block: get_object, the serializer
\* and the check of the status; code 200 when the atomic block is entered
manager_approve_checks_no_status(d, u, o, action, notes) ==
    LET code == Access(d, u, "manager_approve", o) IN
       IF code # 200
       THEN [code |-> code, error |-> AccessError(code)]
       ELSE IF ~OrderApprovalActionSerializer_valid(action, notes)
       THEN [code |-> 400, error |-> "validation"]
       ELSE [code |-> 200, error |-> ""]

manager_approve_checks(d, u, o, action, notes) ==
    LET code == Access(d, u, "manager_approve", o) IN
       IF code # 200
       THEN [code |-> code, error |-> AccessError(code)]
       ELSE IF ~OrderApprovalActionSerializer_valid(action, notes)
       THEN [code |-> 400, error |-> "validation"]
       ELSE IF d.orders[o].status # "pending"
       THEN [code |-> 400, error |-> "not_pending"]
       ELSE [code |-> 200, error |-> ""]

manager_approve_view(d, u, o, action, notes, raised) ==
    LET checks == manager_approve_checks(d, u, o, action, notes) IN
       IF checks.code # 200
       THEN Refuse(d, checks.code, checks.error)
       ELSE Transaction(d, manager_approve_tx(d, o, d.orders[o], u, action, notes),
                        raised, 200)

(***************************************************************************)
(* approve, finance_approve: the endpoints of the earlier workflow, kept   *)
(* for backward compatibility                                              *)
(***************************************************************************)
approve_tx(d, o, obj, u, action, notes) ==
    IF action = "approved" THEN
        LET d1 == update_or_create(d, o, "admin", u, "approved", FALSE)
            obj1 == [obj EXCEPT !.status = "approved_by_admin"]
            d2 == save(d1, o, obj1)
            d3 == log_order_activity(d2, o, u, "admin_approved",
                                     Some(obj.status), Some(obj1.status))
            d4 == notify_each(d3, o, UsersWithRole({"finance_manager"}),
                              "approval_needed")
        IN create_notification(d4, o, obj.requested_by, "approved")
    ELSE IF action = "rejected" THEN
        LET d1 == update_or_create(d, o, "admin", u, "rejected", FALSE)
            obj1 == [obj EXCEPT !.status = "rejected",
                                !.rejection_reason = Some(notes)]
            d2 == save(d1, o, obj1)
            d3 == log_order_activity(d2, o, u, "admin_rejected",
                                     Some(obj.status), Some(obj1.status))
        IN create_notification(d3, o, obj.requested_by, "rejected")
    ELSE IF action = "revision_requested" THEN
        LET obj1 == [obj EXCEPT !.status = "revision_requested_by_admin",
                                !.revision_reason = Some(notes),
                                !.revision_requested_by = u,
                                !.revision_requested_at = Some(now(d))]
            d1 == save(d, o, obj1)
            d2 == update_or_create(d1, o, "admin", u, "revision_requested", TRUE)
            d3 == log_order_activity(d2, o, u, "revision_requested",
                                     Some(obj.status), Some(obj1.status))
        IN create_notification(d3, o, obj.requested_by, "revision_requested")
    ELSE d

approve_view(d, u, o, action, notes, raised) ==
    LET code == Access(d, u, "approve", o) IN
       IF code # 200
       THEN Refuse(d, code, AccessError(code))
       ELSE IF ~OrderApprovalActionSerializer_valid(action, notes)
       THEN Refuse(d, 400, "validation")
       ELSE IF d.orders[o].status # "pending"
       THEN Refuse(d, 400, "not_pending")
       ELSE Transaction(d, approve_tx(d, o, d.orders[o], u, action, notes), raised, 200)

finance_approve_tx(d, o, obj, u, action, notes) ==
    IF action = "approved" THEN
        LET d1 == update_or_create(d, o, "finance", u, "approved", FALSE)
            obj1 == [obj EXCEPT !.status = "approved_by_finance"]
            d2 == save(d1, o, obj1)
            d3 == log_order_activity(d2, o, u, "finance_approved",
                                     Some(obj.status), Some(obj1.status))
        IN create_notification(d3, o, obj.requested_by, "approved")
    ELSE IF action = "rejected" THEN
        LET d1 == update_or_create(d, o, "finance", u, "rejected", FALSE)
            obj1 == [obj EXCEPT !.status = "rejected",
                                !.rejection_reason = Some(notes)]
            d2 == save(d1, o, obj1)
            d3 == log_order_activity(d2, o, u, "finance_rejected",
                                     Some(obj.status), Some(obj1.status))
        IN create_notification(d3, o, obj.requested_by, "rejected")
    ELSE IF action = "revision_requested" THEN
        LET obj1 == [obj EXCEPT !.status = "revision_requested_by_finance",
                                !.revision_reason = Some(notes),
                                !.revision_requested_by = u,
                                !.revision_requested_at = Some(now(d))]
            d1 == save(d, o, obj1)
            d2 == update_or_create(d1, o, "finance", u, "revision_requested", TRUE)
            d3 == log_order_activity(d2, o, u, "revision_requested",
                                     Some(obj.status), Some(obj1.status))
        IN create_notification(d3, o, obj.requested_by, "revision_requested")
    ELSE d

finance_approve_view(d, u, o, action, notes, raised) ==
    LET code == Access(d, u, "finance_approve", o) IN
       IF code # 200
       THEN Refuse(d, code, AccessError(code))
       ELSE IF ~OrderApprovalActionSerializer_valid(action, notes)
       THEN Refuse(d, 400, "validation")
       ELSE IF d.orders[o].status # "approved_by_admin"
       THEN Refuse(d, 400, "not_admin_approved")
       ELSE Transaction(d, finance_approve_tx(d, o, d.orders[o], u, action, notes), raised, 200)

(***************************************************************************)
(* submit_quote                                                            *)
(***************************************************************************)
\* SubmitQuotesSerializer.validate_quotes, validate_quoted_amount
SubmitQuotesSerializer_valid(payload) ==
    LET recommended_count == Cardinality({k \in DOMAIN payload :
                                            payload[k].is_recommended})
    IN /\ Len(payload) # 0
       /\ recommended_count # 0
       /\ ~(recommended_count > 1)
       /\ \A k \in DOMAIN payload : payload[k].quoted_amount > 0

\* a submission that keeps the options stored before it
delete_quote_options_keep(d, o) == d

\* order.quote_options.all().delete(), with the cascade to QuoteOptionItem
delete_quote_options(d, o) ==
    [d EXCEPT !.quotes = {q \in @ : q.order # o},
              !.quoteItems = {qi \in @ : \A q \in QuotesOf(d, o) :
                                            qi.quote_option # q.id}]

\* QuoteOptionItem.objects.create for each item quote of one quote; the
\* foreign key to OrderItem and unique_together are checked by the database
RECURSIVE create_item_quotes(_, _, _)
create_item_quotes(d, quote_id, item_quotes) ==
    IF item_quotes = <<>> THEN d
    ELSE create_item_quotes(
           [d EXCEPT !.quoteItems = @ \cup {[id |-> d.nextQuoteItemId,
                                              quote_option |-> quote_id,
                                              order_item |-> Head(item_quotes).order_item_id,
                                              total_price |-> Head(item_quotes).total_price]},
                     !.nextQuoteItemId = @ + 1],
           quote_id, Tail(item_quotes))

RECURSIVE create_quotes(_, _, _, _)
create_quotes(d, o, u, payload) ==
    IF payload = <<>> THEN d
    ELSE LET quote_data == Head(payload)
             d1 == [d EXCEPT !.quotes = @ \cup {[id |-> d.nextQuoteId, order |-> o,
                                                 supplier_name |-> quote_data.supplier_name,
                                                 quoted_amount |-> quote_data.quoted_amount,
                                                 is_recommended |-> quote_data.is_recommended,
                                                 is_selected |-> FALSE]},
                              !.nextQuoteId = @ + 1]
         IN create_quotes(create_item_quotes(d1, d.nextQuoteId, quote_data.item_quotes),
                          o, u, Tail(payload))

\* the constraints the database enforces on the rows of a submission
IntegrityError(d, payload) ==
    \E k \in DOMAIN payload :
        LET iq == payload[k].item_quotes IN
        \/ \E j \in DOMAIN iq : iq[j].order_item_id \notin DOMAIN d.items
        \/ \E j1, j2 \in DOMAIN iq :
              j1 # j2 /\ iq[j1].order_item_id = iq[j2].order_item_id

submit_quote_tx(d, o, obj, u, payload) ==
    LET d1 == delete_quote_options(d, o)
        d2 == create_quotes(d1, o, u, payload)
        obj1 == [obj EXCEPT !.quote_submitted_by = u,
                            !.status = "procurement_quote_submitted"]
        d3 == save(d2, o, obj1)
        d4 == update_or_create(d3, o, "procurement", u, "approved", FALSE)
        d5 == log_order_activity(d4, o, u, "quote_submitted",
                                 Some(obj.status), Some(obj1.status))
    IN notify_each(d5, o, UsersWithRole({"manager"}), "approval_needed")

submit_quote_view(d, u, o, payload, raised) ==
    LET code == Access(d, u, "submit_quote", o) IN
       IF code # 200
       THEN Refuse(d, code, AccessError(code))
       ELSE IF d.orders[o].status \notin {"approved_by_manager",
                                          "procurement_quote_submitted"}
       THEN Refuse(d, 400, "not_manager_approved")
       ELSE IF ~SubmitQuotesSerializer_valid(payload)
       THEN Refuse(d, 400, "validation")
       ELSE Transaction(d, submit_quote_tx(d, o, d.orders[o], u, payload),
                        raised \/ IntegrityError(d, payload), 200)

(***************************************************************************)
(* approve_quote                                                           *)
(***************************************************************************)
\* order.quote_options.update(is_selected=False), then is_selected = True on
\* the rows whose id is in selected
select_quotes(d, o, selected) ==
    [d EXCEPT !.quotes = {IF q.order = o
                            THEN [q EXCEPT !.is_selected = (q.id \in selected)]
                            ELSE q : q \in @}]

\* an approval that leaves estimated_cost as it was
approve_quote_tx_keep_cost(d, o, obj, u, action, selected_quote) ==
    IF action = "approved" THEN
        LET d1 == select_quotes(d, o, {selected_quote.id})
            obj1 == [obj EXCEPT !.quote_amount = Some(selected_quote.quoted_amount),
                                !.quote_supplier = Some({selected_quote.supplier_name}),
                                !.status = "quote_approved_by_manager"]
            d2 == update_or_create(d1, o, "manager_quote", u, "approved", FALSE)
        IN save(d2, o, obj1)
    ELSE d

approve_quote_tx(d, o, obj, u, action, selected_quote) ==
    IF action = "approved" THEN
        LET d1 == select_quotes(d, o, {selected_quote.id})
            obj1 == [obj EXCEPT !.quote_amount = Some(selected_quote.quoted_amount),
                                !.quote_supplier = Some({selected_quote.supplier_name}),
                                !.estimated_cost = selected_quote.quoted_amount]
            d2 == update_or_create(d1, o, "manager_quote", u, "approved", FALSE)
            obj2 == [obj1 EXCEPT !.status = "quote_approved_by_manager"]
            d3 == save(d2, o, obj2)
            d4 == log_order_activity(d3, o, u, "quote_approved",
                                     Some(obj.status), Some(obj2.status))
            d5 == notify_each(d4, o, UsersWithRole({"finance_manager"}),
                              "approval_needed")
            d6 == create_notification(d5, o, obj.requested_by, "approved")
        IN IF obj.quote_submitted_by # NoUser
           THEN create_notification(d6, o, obj.quote_submitted_by, "approved")
           ELSE d6
    ELSE IF action = "rejected" THEN
        LET obj1 == [obj EXCEPT !.status = "approved_by_manager"]
            d1 == save(d, o, obj1)
            d2 == log_order_activity(d1, o, u, "quote_rejected",
                                     Some(obj.status), Some(obj1.status))
        IN IF obj.quote_submitted_by # NoUser
           THEN create_notification(d2, o, obj.quote_submitted_by, "revision_requested")
           ELSE d2
    ELSE d

\* selected_quote_id = 0 stands for a request without selected_quote_id;
\* action = "" for a request without action
approve_quote_view(d, u, o, action, selected_quote_id, notes, raised) ==
    LET code == Access(d, u, "approve_quote", o) IN
       IF code # 200
       THEN Refuse(d, code, AccessError(code))
       ELSE IF d.orders[o].status # "procurement_quote_submitted"
       THEN Refuse(d, 400, "no_submitted_quotes")
       ELSE IF action = ""
       THEN Refuse(d, 400, "action_required")
       ELSE IF action = "approved" /\ selected_quote_id = 0
       THEN Refuse(d, 400, "selected_quote_required")
       ELSE IF action = "approved"
               /\ ~\E q \in QuotesOf(d, o) : q.id = selected_quote_id
       THEN Refuse(d, 404, "quote_not_found")
       ELSE LET selected_quote == IF action = "approved"
                                  THEN CHOOSE q \in QuotesOf(d, o) :
                                           q.id = selected_quote_id
                                  ELSE [id |-> 0]
            IN Transaction(d, approve_quote_tx(d, o, d.orders[o], u, action, selected_quote), raised, 200)

(***************************************************************************)
(* approve_mixed_quote                                                     *)
(***************************************************************************)
RECURSIVE SumPrices(_)
SumPrices(S) ==
    IF S = {} THEN 0
    ELSE LET x == CHOOSE y \in S : TRUE IN x.total_price + SumPrices(S \ {x})

\* QuoteOptionItem.objects.filter(id__in=ids, quote_option__order=order)
selected_items_of(d, o, ids) ==
    {qi \in d.quoteItems :
        /\ \E k \in DOMAIN ids : ids[k] = qi.id
        /\ \E q \in QuotesOf(d, o) : q.id = qi.quote_option}

RECURSIVE SumQuoted(_)
SumQuoted(S) ==
    IF S = {} THEN 0
    ELSE LET x == CHOOSE y \in S : TRUE IN x.quoted_amount + SumQuoted(S \ {x})

\* the total as the quoted_amount of every quote option that is touched
mixed_total_amount_quoted(d, selected_items) ==
    SumQuoted({q \in d.quotes : \E qi \in selected_items : qi.quote_option = q.id})

\* total_amount: total_price added up over the selected item quotes
mixed_total_amount(d, selected_items) == SumPrices(selected_items)

approve_mixed_quote_tx(d, o, obj, u, selected_items) ==
    LET quote_selections == {qi.quote_option : qi \in selected_items}
        total_amount == mixed_total_amount(d, selected_items)
        d1 == select_quotes(d, o, quote_selections)
        suppliers == {q.supplier_name : q \in {x \in QuotesOf(d, o) :
                                                 x.id \in quote_selections}}
        obj1 == [obj EXCEPT !.quote_amount = Some(total_amount),
                            !.quote_supplier = Some(suppliers),
                            !.estimated_cost = total_amount]
        d2 == update_or_create(d1, o, "manager_quote", u, "approved", FALSE)
        obj2 == [obj1 EXCEPT !.status = "quote_approved_by_manager"]
        d3 == save(d2, o, obj2)
        d4 == log_order_activity(d3, o, u, "quote_approved",
                                 Some(obj.status), Some(obj2.status))
        d5 == notify_each(d4, o, UsersWithRole({"finance_manager"}), "approval_needed")
    IN create_notification(d5, o, obj.requested_by, "approved")

\* ids is the list selected_item_quotes of the request
approve_mixed_quote_view(d, u, o, ids, raised) ==
    LET code == Access(d, u, "approve_mixed_quote", o) IN
       IF code # 200
       THEN Refuse(d, code, AccessError(code))
       ELSE IF d.orders[o].status # "procurement_quote_submitted"
       THEN Refuse(d, 400, "no_submitted_quotes")
       ELSE IF Len(ids) = 0
       THEN Refuse(d, 400, "selection_required")
       ELSE IF Cardinality(selected_items_of(d, o, ids)) # Len(ids)
       THEN Refuse(d, 404, "item_quote_not_found")
       ELSE Transaction(d, approve_mixed_quote_tx(d, o, d.orders[o], u,
                                          selected_items_of(d, o, ids)), raised, 200)

(***************************************************************************)
(* complete_payment, complete                                              *)
(***************************************************************************)
\* the payment is recorded but the order stays where it was
complete_payment_tx_keep_status(d, o, obj, u, payment_amount) ==
    LET obj1 == [obj EXCEPT !.payment_amount = Some(payment_amount)]
        d1 == save(d, o, obj1)
        d2 == update_or_create(d1, o, "finance", u, "approved", FALSE)
    IN log_order_activity(d2, o, u, "payment_completed",
                          Some(obj.status), Some(obj1.status))

complete_payment_tx(d, o, obj, u, payment_amount) ==
    LET obj1 == [obj EXCEPT !.payment_amount = Some(payment_amount),
                            !.status = "payment_completed"]
        d1 == save(d, o, obj1)
        d2 == update_or_create(d1, o, "finance", u, "approved", FALSE)
        d3 == log_order_activity(d2, o, u, "payment_completed",
                                 Some(obj.status), Some(obj1.status))
        d4 == create_notification(d3, o, obj.requested_by, "completed")
    IN IF obj.quote_submitted_by # NoUser
       THEN create_notification(d4, o, obj.quote_submitted_by, "completed")
       ELSE d4

\* payment_amount = 0 stands for a request without payment_amount
complete_payment_view(d, u, o, payment_amount, raised) ==
    LET code == Access(d, u, "complete_payment", o) IN
       IF code # 200
       THEN Refuse(d, code, AccessError(code))
       ELSE IF d.orders[o].status # "quote_approved_by_manager"
       THEN Refuse(d, 400, "no_approved_quote")
       ELSE IF payment_amount = 0
       THEN Refuse(d, 400, "amount_required")
       ELSE Transaction(d, complete_payment_tx(d, o, d.orders[o], u, payment_amount), raised, 200)

complete_tx(d, o, obj, u) ==
    LET obj1 == [obj EXCEPT !.status = "completed", !.completion_date = TRUE]
        d1 == save(d, o, obj1)
        d2 == log_order_activity(d1, o, u, "completed",
                                 Some(obj.status), Some(obj1.status))
    IN create_notification(d2, o, obj.requested_by, "completed")

complete_view(d, u, o, raised) ==
    LET code == Access(d, u, "complete", o) IN
       IF code # 200
       THEN Refuse(d, code, AccessError(code))
       ELSE IF d.orders[o].status \notin {"payment_completed", "approved_by_finance"}
       THEN Refuse(d, 400, "payment_not_completed")
       ELSE Transaction(d, complete_tx(d, o, d.orders[o], u), raised, 200)

(***************************************************************************)
(* submit_revision                                                         *)
(***************************************************************************)
\* Order.needs_revision
needs_revision(obj) ==
    obj.status \in {"revision_requested_by_manager",
                    "revision_requested_by_procurement",
                    "revision_requested_by_finance"}

\* OrderListSerializer(order, data=..., partial=True).is_valid(): status is a
\* writable choice field, estimated_cost has the model's MinValueValidator
OrderListSerializer_valid(data) ==
    /\ data.status # None => data.status[1] \in STATUS_CHOICES
    /\ data.estimated_cost # None => data.estimated_cost[1] > 0

\* serializer.save(): the fields of the request are set on the order object
serializer_update(obj, data) ==
    [obj EXCEPT !.status = IF data.status # None THEN data.status[1] ELSE @,
                !.estimated_cost = IF data.estimated_cost # None
                                   THEN data.estimated_cost[1] ELSE @]

\* the status of the request body survives the reset
submit_revision_tx_payload_status(d, o, obj, u, data) ==
    LET obj1 == serializer_update(obj, data)
        obj2 == [obj1 EXCEPT !.status = IF data.status # None THEN data.status[1]
                                        ELSE "pending",
                             !.revision_reason = None,
                             !.revision_requested_by = NoUser,
                             !.revision_requested_at = None]
        d2 == save(d, o, obj2)
    IN log_order_activity(d2, o, u, "revision_submitted",
                          Some(obj.status), Some(obj2.status))

submit_revision_tx(d, o, obj, u, data) ==
    LET obj1 == serializer_update(obj, data)
        d1 == save(d, o, obj1)
        obj2 == [obj1 EXCEPT !.status = "pending",
                             !.revision_reason = None,
                             !.revision_requested_by = NoUser,
                             !.revision_requested_at = None]
        d2 == save(d1, o, obj2)
        d3 == log_order_activity(d2, o, u, "revision_submitted",
                                 Some(obj.status), Some(obj2.status))
    IN notify_each(d3, o, UsersWithRole({"admin", "super_admin"}), "approval_needed")

submit_revision_view(d, u, o, data, raised) ==
    LET code == Access(d, u, "submit_revision", o) IN
       IF code # 200
       THEN Refuse(d, code, AccessError(code))
       ELSE IF ~(\/ d.orders[o].requested_by = u
                 \/ (UserRole[u] \in {"head_veterinary", "veterinary"}
                     /\ d.orders[o].order_type = "medicine"))
       THEN Refuse(d, 403, "forbidden")
       ELSE IF ~needs_revision(d.orders[o])
       THEN Refuse(d, 400, "not_in_revision")
       ELSE IF ~OrderListSerializer_valid(data)
       THEN Refuse(d, 400, "validation")
       ELSE Transaction(d, submit_revision_tx(d, o, d.orders[o], u, data), raised, 200)

(***************************************************************************)
(* split_and_approve                                                       *)
(***************************************************************************)
InGroup(group, id) == \E k \in DOMAIN group : group[k] = id

\* provided_item_ids: the union of the groups, as a set
provided_item_ids(item_groups) ==
    UNION {{item_groups[g][k] : k \in DOMAIN item_groups[g]} : g \in DOMAIN item_groups}

\* the check of the item groups against the items of the order
groups_accepted(all_item_ids, item_groups) ==
    provided_item_ids(item_groups) = all_item_ids

RECURSIVE SumCosts(_, _)
SumCosts(d, ids) ==
    IF ids = {} THEN 0
    ELSE LET i == CHOOSE x \in ids : TRUE
             c == d.items[i].estimated_cost
         IN (IF c = None THEN 0 ELSE c[1]) + SumCosts(d, ids \ {i})

RECURSIVE copy_items(_, _, _, _)
copy_items(d, new_order, ids, from) ==
    IF from > Len(d.items) THEN d
    ELSE IF from \in ids
         THEN copy_items([d EXCEPT !.items = Append(@,
                              [d.items[from] EXCEPT !.order = new_order])],
                         new_order, ids, from + 1)
         ELSE copy_items(d, new_order, ids, from + 1)

\* a loop that leaves the new orders waiting for the manager
RECURSIVE split_groups_pending(_, _, _, _, _, _, _, _)
split_groups_pending(d, o, obj, u, item_groups, order_items, group_index, in) ==
    IF group_index > Len(item_groups) THEN d
    ELSE LET group_items == {i \in order_items : InGroup(item_groups[group_index], i)}
             new_order == Len(d.orders) + 1
             d1 == [d EXCEPT !.orders = Append(@,
                      NewOrder(generate_order_number(d, obj.order_type, in.timestamp),
                               obj.order_type, obj.requested_by, "pending", MinCost))]
             d2 == copy_items(d1, new_order, group_items, 1)
         IN split_groups_pending(d2, o, obj, u, item_groups, order_items,
                                 group_index + 1, in)

\* the loop over item_groups from group_index on; order_items are the ids of
\* the order's items read before the loop; log_fails is the index of the group
\* whose log_order_activity raises inside the try/except (0: none)
RECURSIVE split_groups(_, _, _, _, _, _, _, _)
split_groups(d, o, obj, u, item_groups, order_items, group_index, in) ==
    IF group_index > Len(item_groups) THEN d
    ELSE LET group_items == {i \in order_items : InGroup(item_groups[group_index], i)}
             group_cost == SumCosts(d, group_items)
             new_order == Len(d.orders) + 1
             d1 == [d EXCEPT !.orders = Append(@,
                      NewOrder(generate_order_number(d, obj.order_type, in.timestamp),
                               obj.order_type, obj.requested_by, "approved_by_manager",
                               IF group_cost # 0 THEN group_cost ELSE MinCost))]
             d2 == copy_items(d1, new_order, group_items, 1)
             d3 == IF in.log_fails = group_index THEN d2
                   ELSE log_order_activity(d2, new_order, u, "created",
                                           Some("pending"), Some("approved_by_manager"))
         IN split_groups(d3, o, obj, u, item_groups, order_items, group_index + 1, in)

split_and_approve_tx(d, o, obj, u, item_groups, in) ==
    IF Len(item_groups) = 1 THEN
        LET obj1 == [obj EXCEPT !.status = "approved_by_manager"]
            d1 == save(d, o, obj1)
        IN log_order_activity(d1, o, u, "manager_approved",
                              Some(obj.status), Some(obj1.status))
    ELSE
        LET d1 == split_groups(d, o, obj, u, item_groups, ItemsOf(d, o), 1, in)
            obj1 == [obj EXCEPT !.status = "completed", !.completion_date = TRUE]
            d2 == save(d1, o, obj1)
        IN log_order_activity(d2, o, u, "status_changed",
                              Some(obj.status), Some("completed"))

\* in.aborts: the database aborts a transaction in which a statement failed,
\* so that the statement after the swallowed exception raises (PostgreSQL);
\* otherwise the transaction goes on without the failed row (SQLite, MySQL, or
\* an exception raised before the INSERT is sent)
split_and_approve_view(d, u, o, item_groups, in, raised) ==
    LET code == Access(d, u, "split_and_approve", o) IN
       IF ~has_permission(u, "split_and_approve")
       THEN Refuse(d, 403, "forbidden")
       ELSE IF code # 200
       THEN Refuse(d, 500, "initial_validation_failed")
       ELSE IF UserRole[u] \notin {"manager", "super_admin"}
       THEN Refuse(d, 403, "forbidden")
       ELSE IF d.orders[o].status # "pending"
       THEN Refuse(d, 400, "not_pending")
       ELSE IF Len(item_groups) < 1
       THEN Refuse(d, 400, "no_groups")
       ELSE IF ItemsOf(d, o) = {}
       THEN Refuse(d, 400, "no_items")
       ELSE IF ~groups_accepted(ItemsOf(d, o), item_groups)
       THEN Refuse(d, 400, "partition")
       ELSE Transaction(d, split_and_approve_tx(d, o, d.orders[o], u, item_groups, in),
                        raised \/ (/\ Len(item_groups) > 1
                                   /\ in.log_fails \in 1..Len(item_groups)
                                   /\ in.aborts),
                        200)

(***************************************************************************)
(* Inputs of the requests.                                                 *)
(***************************************************************************)
Actions == APPROVAL_ACTIONS \cup {"bogus"}
TargetIds == 1..MaxOrders

SeqsUpTo(S, n) == UNION {[1..k -> S] : k \in 0..n}

MaxGroups == 3          \* item groups of one split request
MaxSelected == 2        \* ids in selected_item_quotes

\* one or two quote options from two suppliers; the item quotes price the item
\* ids of a list, each at the supplier's price
ItemQuotes(ids, price) ==
    [k \in DOMAIN ids |-> [order_item_id |-> ids[k], total_price |-> price]]

QuoteData(supplier, amount, price, rec, ids) ==
    [supplier_name |-> supplier, quoted_amount |-> amount, is_recommended |-> rec,
     item_quotes |-> ItemQuotes(ids, price)]

ItemIdLists == {<<1, 2>>, <<1, 1>>, <<MaxOrders * MaxItems + 1>>}

QuotePayloads ==
    {<<>>}
    \cup {<<QuoteData("Agrovet", 80, 10, r1, ids)>> : r1 \in BOOLEAN, ids \in ItemIdLists}
    \cup {<<QuoteData("Agrovet", 80, 10, r[1], ids), QuoteData("FarmSupply", 95, 20, r[2], ids)>> :
            r \in {<<TRUE, FALSE>>, <<TRUE, TRUE>>, <<FALSE, FALSE>>}, ids \in ItemIdLists}

QuoteActions == {"", "approved", "rejected", "revision_requested"}
PaymentAmounts == {0, 80}
RevisionData == {[status |-> None, estimated_cost |-> None],
                 [status |-> None, estimated_cost |-> Some(120)],
                 [status |-> Some("completed"), estimated_cost |-> None],
                 [status |-> Some("approved_by_admin"), estimated_cost |-> None]}
\* the group lists of the split requests, for an order with the items 1, 2:
\* partitions, an omission, a foreign id, repeats and empty groups
ItemGroups == {<<>>, <<<<1, 2>>>>, <<<<1>>, <<2>>>>, <<<<1>>>>, <<<<1, 2>>, <<3>>>>,
               <<<<1, 2>>, <<2>>>>, <<<<1, 1>>, <<2>>>>, <<<<1, 2>>, <<>>>>,
               <<<<1>>, <<2>>, <<>>>>}
SplitInputs == [timestamp : Timestamps, log_fails : 0..MaxGroups, aborts : BOOLEAN]

(***************************************************************************)
(* The actions: one per endpoint.  A step is a call that was answered with *)
(* success; a refused call, and a call whose transaction raised, leaves    *)
(* every table as it was.                                                  *)
(***************************************************************************)
\* the request bodies a call is tried with: when the framework refuses the
\* call before the handler body runs, one request body stands for all
Bodies(u, action, o, S) ==
    IF Access(DB, u, action, o) = 200 THEN S ELSE {CHOOSE x \in S : TRUE}

create(u) ==
    /\ Len(orders) < MaxCreated
    /\ \E order_type \in CreateTypes, n \in 0..MaxItems, cost \in Costs,
          timestamp \in Timestamps :
          Call("create", Len(orders) + 1,
               create_view(DB, u, order_type, n, cost, timestamp, FALSE))

manager_approve(u, o) ==
    /\ o \in DOMAIN orders
    /\ \E action \in Bodies(u, "manager_approve", o, Actions),
       notes \in Bodies(u, "manager_approve", o, Notes) :
        Call("manager_approve", o,
             manager_approve_view(DB, u, o, action, notes, FALSE))

approve(u, o) ==
    /\ o \in DOMAIN orders
    /\ \E action \in Bodies(u, "approve", o, Actions),
       notes \in Bodies(u, "approve", o, Notes) :
        Call("approve", o, approve_view(DB, u, o, action, notes, FALSE))

finance_approve(u, o) ==
    /\ o \in DOMAIN orders
    /\ \E action \in Bodies(u, "finance_approve", o, Actions),
       notes \in Bodies(u, "finance_approve", o, Notes) :
        Call("finance_approve", o,
             finance_approve_view(DB, u, o, action, notes, FALSE))

submit_quote(u, o) ==
    /\ o \in DOMAIN orders
    /\ \E payload \in Bodies(u, "submit_quote", o, QuotePayloads) :
        Call("submit_quote", o, submit_quote_view(DB, u, o, payload, FALSE))

approve_quote(u, o) ==
    /\ o \in DOMAIN orders
    /\ \E action \in Bodies(u, "approve_quote", o, QuoteActions),
       selected_quote_id \in Bodies(u, "approve_quote", o, 0..nextQuoteId),
       notes \in Bodies(u, "approve_quote", o, Notes) :
        Call("approve_quote", o,
             approve_quote_view(DB, u, o, action, selected_quote_id, notes, FALSE))

approve_mixed_quote(u, o) ==
    /\ o \in DOMAIN orders
    /\ \E ids \in Bodies(u, "approve_mixed_quote", o,
                      SeqsUpTo(1..nextQuoteItemId, MaxSelected)) :
        Call("approve_mixed_quote", o,
             approve_mixed_quote_view(DB, u, o, ids, FALSE))

complete_payment(u, o) ==
    /\ o \in DOMAIN orders
    /\ \E payment_amount \in Bodies(u, "complete_payment", o, PaymentAmounts) :
        Call("complete_payment", o,
             complete_payment_view(DB, u, o, payment_amount, FALSE))

complete(u, o) ==
    /\ o \in DOMAIN orders
    /\ Call("complete", o, complete_view(DB, u, o, FALSE))

submit_revision(u, o) ==
    /\ o \in DOMAIN orders
    /\ \E data \in Bodies(u, "submit_revision", o, RevisionData) :
        Call("submit_revision", o, submit_revision_view(DB, u, o, data, FALSE))

split_and_approve(u, o) ==
    /\ o \in DOMAIN orders
    /\ \E item_groups \in Bodies(u, "split_and_approve", o, ItemGroups),
       in \in Bodies(u, "split_and_approve", o, SplitInputs) :
        Call("split_and_approve", o,
             split_and_approve_view(DB, u, o, item_groups, in, FALSE))

Next ==
    \/ \E u \in Requesters : create(u)
    \/ \E u \in Users, o \in TargetIds : manager_approve(u, o)
    \/ \E u \in Users, o \in TargetIds : approve(u, o)
    \/ \E u \in Users, o \in TargetIds : finance_approve(u, o)
    \/ \E u \in Users, o \in TargetIds : submit_quote(u, o)
    \/ \E u \in Users, o \in TargetIds : approve_quote(u, o)
    \/ \E u \in Users, o \in TargetIds : approve_mixed_quote(u, o)
    \/ \E u \in Users, o \in TargetIds : complete_payment(u, o)
    \/ \E u \in Users, o \in TargetIds : complete(u, o)
    \/ \E u \in Users, o \in TargetIds : submit_revision(u, o)
    \/ \E u \in Users, o \in TargetIds : split_and_approve(u, o)

Spec == Init /\ [][Next]_vars

(***************************************************************************)
(* Two requests in flight.  A worker runs the view up to the atomic block  *)
(* (get_object, the serializer, the check of the status: no row is locked, *)
(* nothing is written), and later runs the atomic block on the Order       *)
(* object it loaded.  Between the two steps another worker may commit.     *)
(***************************************************************************)
MaxInflight == 2        \* requests between their checks and their commit

begin_manager_approve(u, o, action, notes) ==
    /\ Cardinality(inflight) < MaxInflight
    /\ manager_approve_checks(DB, u, o, action, notes).code = 200
    /\ inflight' = inflight \cup {[user |-> u, order |-> o, action |-> action,
                                   notes |-> notes, obj |-> orders[o]]}
    /\ UNCHANGED <<dbvars, resp>>

finish_manager_approve(req) ==
    /\ req \in inflight
    /\ LET d2 == manager_approve_tx(DB, req.order, req.obj, req.user, req.action,
                                    req.notes)
       IN /\ Len(d2.activities) <= MaxActivities
          /\ Store(d2)
    /\ resp' = [op |-> "manager_approve", order |-> req.order, code |-> 200]
    /\ inflight' = inflight \ {req}

NextConc ==
    \/ \E u \in Requesters : create(u)
    \/ \E u \in Users, o \in TargetIds, a \in Actions, n \in Notes :
          begin_manager_approve(u, o, a, n)
    \/ \E req \in inflight : finish_manager_approve(req)

SpecConc == Init /\ [][NextConc]_vars

(***************************************************************************)
(* Properties of the workflow.                                             *)
(***************************************************************************)
RowsOf(o, stage) ==
    {i \in DOMAIN approvals : approvals[i].order = o /\ approvals[i].stage = stage}

ActivitiesOf(o, types) ==
    {i \in DOMAIN activities :
        activities[i].order = o /\ activities[i].activity_type \in types}

\* C1: the ledger never holds two rows for the same order and stage, whatever
\* sequence of decisions, revision loops, resubmissions and quote rejections
\* the order went through
C1_OneRowPerStage ==
    \A i, j \in DOMAIN approvals :
        (approvals[i].order = approvals[j].order
         /\ approvals[i].stage = approvals[j].stage) => i = j

\* an order that was sent back by the manager, revised and approved, and for
\* which quotes were submitted twice: two stages were decided twice
C1_Redecided ==
    \E o \in DOMAIN orders :
        /\ ActivitiesOf(o, {"revision_requested"}) # {}
        /\ ActivitiesOf(o, {"manager_approved"}) # {}
        /\ Cardinality(ActivitiesOf(o, {"quote_submitted"})) >= 2
        /\ Cardinality(RowsOf(o, "manager_initial")) = 1
        /\ Cardinality(RowsOf(o, "procurement")) = 1

\* C2: a manager_approve call that commits after the order has left pending
\* (the second of two concurrent writers) changes no table
C2_SecondWriterRefused ==
    [][\A req \in inflight :
          (req \notin inflight' /\ orders[req.order].status # "pending")
              => UNCHANGED dbvars]_vars

\* C3: the status of every order is one of the eleven values of the model's
\* STATUS_CHOICES
C3_StatusInChoices ==
    \A o \in DOMAIN orders : orders[o].status \in STATUS_CHOICES

\* C4: manager_approve on an order that is not pending is refused, with the
\* precondition error when the caller and the request body are otherwise
\* acceptable, and leaves every table as it was
C4_NonPendingRefused ==
    \A u \in Users, o \in DOMAIN orders :
        orders[o].status # "pending" =>
            \A action \in Actions, notes \in Notes, raised \in BOOLEAN :
                LET r == manager_approve_view(DB, u, o, action, notes, raised) IN
                   /\ r.code >= 400
                   /\ r.db = DB
                   /\ (/\ Access(DB, u, "manager_approve", o) = 200
                       /\ OrderApprovalActionSerializer_valid(action, notes))
                          => (r.code = 400 /\ r.error = "not_pending")

\* an order already approved by the manager, on which a manager may call
\* manager_approve again
C4_AlreadyApproved ==
    \E o \in DOMAIN orders :
        /\ orders[o].status = "approved_by_manager"
        /\ resp = [op |-> "manager_approve", order |-> o, code |-> 200]
        /\ Access(DB, "mgr", "manager_approve", o) = 200

\* C5: a transition in which a write fails leaves every table as it was before
\* the call
C5_FailureRollsBack ==
    /\ \A u \in Users, order_type \in ORDER_TYPES, n \in 1..MaxItems, cost \in Costs,
          timestamp \in Timestamps :
          create_view(DB, u, order_type, n, cost, timestamp, TRUE).db = DB
    /\ \A u \in Users, o \in DOMAIN orders :
          /\ \A action \in Actions, notes \in Notes :
                manager_approve_view(DB, u, o, action, notes, TRUE).db = DB
          /\ \A payload \in QuotePayloads :
                submit_quote_view(DB, u, o, payload, TRUE).db = DB
          /\ \A action \in QuoteActions, q \in 0..nextQuoteId, notes \in Notes :
                approve_quote_view(DB, u, o, action, q, notes, TRUE).db = DB
          /\ \A ids \in SeqsUpTo(1..nextQuoteItemId, MaxSelected) :
                approve_mixed_quote_view(DB, u, o, ids, TRUE).db = DB
          /\ \A payment_amount \in PaymentAmounts :
                complete_payment_view(DB, u, o, payment_amount, TRUE).db = DB
          /\ complete_view(DB, u, o, TRUE).db = DB
          /\ \A data \in RevisionData :
                submit_revision_view(DB, u, o, data, TRUE).db = DB
          /\ \A item_groups \in ItemGroups, in \in SplitInputs :
                /\ split_and_approve_view(DB, u, o, item_groups, in, TRUE).db = DB
                /\ (Len(item_groups) > 1 /\ in.log_fails \in 1..Len(item_groups))
                      => split_and_approve_view(DB, u, o, item_groups, in, FALSE).db = DB

\* the options of a submission, and the options stored for an order, without
\* their ids
QuoteRows(payload) ==
    {[supplier_name |-> payload[k].supplier_name,
      quoted_amount |-> payload[k].quoted_amount,
      is_recommended |-> payload[k].is_recommended] : k \in DOMAIN payload}

StoredRows(d, o) ==
    {[supplier_name |-> q.supplier_name, quoted_amount |-> q.quoted_amount,
      is_recommended |-> q.is_recommended] : q \in QuotesOf(d, o)}

\* C6: the options stored for an order are none, or exactly those of the last
\* successful submission with exactly one of them recommended: a successful
\* submit_quote removes every option (and item quote) stored before it and
\* stores its own; a submission with no or several recommended options is
\* refused and changes nothing
C6_QuoteSetReplaced ==
    /\ \A o \in DOMAIN orders :
          \/ QuotesOf(DB, o) = {}
          \/ Cardinality({q \in QuotesOf(DB, o) : q.is_recommended}) = 1
    /\ \A u \in Users, o \in DOMAIN orders, payload \in QuotePayloads :
          LET r == submit_quote_view(DB, u, o, payload, FALSE)
              recommended == {k \in DOMAIN payload : payload[k].is_recommended}
              before == {q.id : q \in QuotesOf(DB, o)}
          IN /\ r.code = 200 =>
                  /\ Cardinality(QuotesOf(r.db, o)) = Len(payload)
                  /\ StoredRows(r.db, o) = QuoteRows(payload)
                  /\ \A q \in QuotesOf(r.db, o) : q.id \notin before
                  /\ \A qi \in r.db.quoteItems : qi.quote_option \notin before
                  /\ Cardinality(recommended) = 1
             /\ Cardinality(recommended) # 1 => (r.code >= 400 /\ r.db = DB)

\* quotes were submitted for an order a second time: the first options are gone
C6_Resubmitted ==
    \E o \in DOMAIN orders :
        /\ resp = [op |-> "submit_quote", order |-> o, code |-> 200]
        /\ Cardinality(ActivitiesOf(o, {"quote_submitted"})) >= 2
        /\ QuotesOf(DB, o) # {}
        /\ \A q \in QuotesOf(DB, o) : q.id > 1

\* the places of an item id in the groups of a split request
Occurrences(item_groups, id) ==
    {p \in UNION {{<<g, k>> : k \in DOMAIN item_groups[g]} : g \in DOMAIN item_groups} :
        item_groups[p[1]][p[2]] = id}

\* every item of the order is in exactly one group exactly once, and the
\* groups name nothing else
IsPartition(all_item_ids, item_groups) ==
    /\ \A id \in all_item_ids : Cardinality(Occurrences(item_groups, id)) = 1
    /\ provided_item_ids(item_groups) \subseteq all_item_ids

\* C7: split_and_approve is accepted only for item groups that partition the
\* items of the order; any other request is refused and changes nothing
C7_OnlyPartitions ==
    \A u \in Users, o \in DOMAIN orders, item_groups \in ItemGroups, in \in SplitInputs :
        LET r == split_and_approve_view(DB, u, o, item_groups, in, FALSE) IN
           /\ r.code = 200 => IsPartition(ItemsOf(DB, o), item_groups)
           /\ ~IsPartition(ItemsOf(DB, o), item_groups) => (r.code >= 400 /\ r.db = DB)

\* the original order o is completed and n orders were added, each approved by
\* the manager and with a number no other order has
SplitMakes(d, d2, o, n) ==
    /\ d2.orders[o].status = "completed"
    /\ Len(d2.orders) = Len(d.orders) + n
    /\ \A k \in (Len(d.orders) + 1)..Len(d2.orders) :
          /\ d2.orders[k].status = "approved_by_manager"
          /\ \A j \in DOMAIN d2.orders :
                j # k => d2.orders[j].order_number # d2.orders[k].order_number

\* C8 as stated: a successful split with N >= 1 groups completes the original
\* order and makes N new orders approved by the manager, with numbers of
\* their own
C8_SplitMakesN ==
    \A u \in Users, o \in DOMAIN orders, item_groups \in ItemGroups, in \in SplitInputs :
        LET r == split_and_approve_view(DB, u, o, item_groups, in, FALSE) IN
           r.code = 200 => SplitMakes(DB, r.db, o, Len(item_groups))

\* C8: a successful split with N >= 2 groups completes the original order and
\* makes N new orders approved by the manager, with numbers of their own; with
\* one group it makes no order and the original becomes approved_by_manager
C8_SplitOutcome ==
    \A u \in Users, o \in DOMAIN orders, item_groups \in ItemGroups, in \in SplitInputs :
        LET r == split_and_approve_view(DB, u, o, item_groups, in, FALSE) IN
           r.code = 200 =>
               IF Len(item_groups) >= 2
               THEN SplitMakes(DB, r.db, o, Len(item_groups))
               ELSE /\ r.db.orders = [DB.orders EXCEPT ![o].status = "approved_by_manager"]
                    /\ orders[o].status = "pending"

\* an order was split into two
C8_SplitDone ==
    /\ resp.op = "split_and_approve"
    /\ orders[resp.order].status = "completed"
    /\ Len(orders) = 3
    /\ \A k \in 2..3 : orders[k].status = "approved_by_manager"

\* C9: approve_quote(approved, q) on an order with submitted quotes, q one of
\* its options: a manager's call succeeds; the order becomes
\* quote_approved_by_manager, quote_amount and estimated_cost are q's quoted
\* amount, the supplier is q's, and q is the only selected option
C9_ApproveQuote ==
    \A u \in Users, o \in DOMAIN orders :
        orders[o].status = "procurement_quote_submitted" =>
            \A q \in QuotesOf(DB, o), notes \in Notes :
                LET r == approve_quote_view(DB, u, o, "approved", q.id, notes, FALSE) IN
                   /\ Access(DB, u, "approve_quote", o) = 200 => r.code = 200
                   /\ r.code = 200 =>
                        /\ r.db.orders[o].status = "quote_approved_by_manager"
                        /\ r.db.orders[o].quote_amount = Some(q.quoted_amount)
                        /\ r.db.orders[o].estimated_cost = q.quoted_amount
                        /\ r.db.orders[o].quote_supplier = Some({q.supplier_name})
                        /\ {x.id : x \in QuotesOf(r.db, o)} = {x.id : x \in QuotesOf(DB, o)}
                        /\ {x \in QuotesOf(r.db, o) : x.is_selected}
                              = {[q EXCEPT !.is_selected = TRUE]}

\* one of two submitted options was approved
C9_QuoteApproved ==
    \E o \in DOMAIN orders :
        /\ resp = [op |-> "approve_quote", order |-> o, code |-> 200]
        /\ orders[o].status = "quote_approved_by_manager"
        /\ Cardinality(QuotesOf(DB, o)) = 2
        /\ \E q \in QuotesOf(DB, o) :
              /\ q.is_selected
              /\ orders[o].quote_amount = Some(q.quoted_amount)

\* C10: approve_mixed_quote with a list without repeats of item quotes of the
\* order's options: a super_admin's call succeeds; quote_amount and
\* estimated_cost are the sum of total_price over the listed item quotes, the
\* selected options are exactly those with a listed item quote, and the order
\* goes from procurement_quote_submitted to quote_approved_by_manager
C10_MixedQuote ==
    \A u \in Users, o \in DOMAIN orders :
        orders[o].status = "procurement_quote_submitted" =>
            \A ids \in SeqsUpTo(1..nextQuoteItemId, MaxSelected) :
                LET S == {ids[k] : k \in DOMAIN ids}
                    chosen == {qi \in quoteItems : qi.id \in S}
                    r == approve_mixed_quote_view(DB, u, o, ids, FALSE)
                IN (/\ Len(ids) > 0
                    /\ Cardinality(S) = Len(ids)
                    /\ \A id \in S : \E qi \in quoteItems :
                          /\ qi.id = id
                          /\ \E q \in QuotesOf(DB, o) : q.id = qi.quote_option)
                   => /\ Access(DB, u, "approve_mixed_quote", o) = 200 => r.code = 200
                      /\ r.code = 200 =>
                           /\ r.db.orders[o].status = "quote_approved_by_manager"
                           /\ r.db.orders[o].quote_amount = Some(SumPrices(chosen))
                           /\ r.db.orders[o].estimated_cost = SumPrices(chosen)
                           /\ \A q \in QuotesOf(r.db, o) :
                                 q.is_selected <=>
                                     \E qi \in chosen : qi.quote_option = q.id

\* item quotes of two options were approved together: the amount is the sum
\* of their prices, not of the options' quoted amounts
C10_MixedApproved ==
    \E o \in DOMAIN orders :
        /\ resp = [op |-> "approve_mixed_quote", order |-> o, code |-> 200]
        /\ orders[o].status = "quote_approved_by_manager"
        /\ Cardinality({q \in QuotesOf(DB, o) : q.is_selected}) = 2
        /\ orders[o].quote_amount # Some(SumQuoted({q \in QuotesOf(DB, o) : q.is_selected}))

\* C11: a call by an actor whose role is not the one the operation requires
\* (manager for manager_approve and approve_quote, procurement for
\* submit_quote, finance_manager for complete_payment; super_admin for all) is
\* answered 403 and leaves every table as it was
C11_WrongRoleForbidden ==
    \A u \in Users, o \in DOMAIN orders :
        /\ UserRole[u] \notin {"manager", "super_admin"} =>
              /\ \A action \in Actions, notes \in Notes :
                    LET r == manager_approve_view(DB, u, o, action, notes, FALSE) IN
                       r.code = 403 /\ r.db = DB
              /\ \A action \in QuoteActions, q \in 0..nextQuoteId, notes \in Notes :
                    LET r == approve_quote_view(DB, u, o, action, q, notes, FALSE) IN
                       r.code = 403 /\ r.db = DB
        /\ UserRole[u] \notin {"procurement", "super_admin"} =>
              \A payload \in QuotePayloads :
                  LET r == submit_quote_view(DB, u, o, payload, FALSE) IN
                     r.code = 403 /\ r.db = DB
        /\ UserRole[u] \notin {"finance_manager", "super_admin"} =>
              \A payment_amount \in PaymentAmounts :
                  LET r == complete_payment_view(DB, u, o, payment_amount, FALSE) IN
                     r.code = 403 /\ r.db = DB

\* quotes wait for the manager: the manager's approve_quote would be accepted,
\* the same request by the procurement user is forbidden
C11_WrongRoleTried ==
    \E o \in DOMAIN orders :
        /\ orders[o].status = "procurement_quote_submitted"
        /\ \E q \in QuotesOf(DB, o) :
              /\ approve_quote_view(DB, "mgr", o, "approved", q.id, "", FALSE).code = 200
              /\ approve_quote_view(DB, "proc", o, "approved", q.id, "", FALSE).code = 403

\* C12: no operation the transition table gives to the manager is refused to
\* a manager for lack of permission: manager_approve and split_and_approve on
\* a pending order, approve_quote and approve_mixed_quote on an order with
\* submitted quotes
C12_ManagerPermitted ==
    \A u \in Users, o \in DOMAIN orders :
        UserRole[u] = "manager" =>
            /\ orders[o].status = "pending" =>
                  /\ \A action \in APPROVAL_ACTIONS :
                        manager_approve_view(DB, u, o, action, "fix quantity", FALSE).code
                            = 200
                  /\ \A item_groups \in ItemGroups, in \in SplitInputs :
                        split_and_approve_view(DB, u, o, item_groups, in, FALSE).code
                            \notin {403, 404}
            /\ orders[o].status = "procurement_quote_submitted" =>
                  /\ \A q \in QuotesOf(DB, o) :
                        approve_quote_view(DB, u, o, "approved", q.id, "", FALSE).code = 200
                  /\ \A ids \in SeqsUpTo(1..nextQuoteItemId, MaxSelected) :
                        approve_mixed_quote_view(DB, u, o, ids, FALSE).code # 403

\* C13: submit_quote by a procurement user with an acceptable body succeeds on
\* every order that is approved_by_manager or procurement_quote_submitted,
\* whoever requested it, and leaves it in procurement_quote_submitted
C13_ProcurementPermitted ==
    \A u \in Users, o \in DOMAIN orders :
        (/\ UserRole[u] = "procurement"
         /\ orders[o].status \in {"approved_by_manager", "procurement_quote_submitted"})
        => \A payload \in QuotePayloads :
              (SubmitQuotesSerializer_valid(payload) /\ ~IntegrityError(DB, payload))
              => LET r == submit_quote_view(DB, u, o, payload, FALSE) IN
                    /\ r.code = 200
                    /\ r.db.orders[o].status = "procurement_quote_submitted"

\* C14: a finance user can act on every order at or past manager approval,
\* whoever requested it: complete_payment with an amount succeeds on every
\* order in quote_approved_by_manager and complete succeeds on every order in
\* payment_completed
C14_FinancePermitted ==
    \A u \in Users, o \in DOMAIN orders :
        UserRole[u] = "finance_manager"
        => /\ orders[o].status = "quote_approved_by_manager"
              => \A payment_amount \in PaymentAmounts \ {0} :
                    LET r == complete_payment_view(DB, u, o, payment_amount, FALSE) IN
                       /\ r.code = 200
                       /\ r.db.orders[o].status = "payment_completed"
           /\ orders[o].status = "payment_completed"
              => LET r == complete_view(DB, u, o, FALSE) IN
                    /\ r.code = 200
                    /\ r.db.orders[o].status = "completed"

(***************************************************************************)
(* Orders of requesters of several roles and of several types, in the      *)
(* revision cycle: create, manager_approve, submit_revision.               *)
(***************************************************************************)
RevisionRequesters == {"vet", "proc"}
RevisionTypes == {"medicine", "equipment"}

create_as(u, order_type) ==
    /\ Len(orders) < MaxCreated
    /\ \E n \in 1..MaxItems, cost \in Costs, timestamp \in Timestamps :
          Call("create", Len(orders) + 1,
               create_view(DB, u, order_type, n, cost, timestamp, FALSE))

NextRevision ==
    \/ \E u \in RevisionRequesters, order_type \in RevisionTypes : create_as(u, order_type)
    \/ \E u \in Users, o \in TargetIds : manager_approve(u, o)
    \/ \E u \in Users, o \in TargetIds : submit_revision(u, o)

SpecRevision == Init /\ [][NextRevision]_vars

\* C15: on an order that needs revision, submit_revision with an acceptable
\* body succeeds for the requester, whatever the requester's role, and for a
\* veterinary user when the order type is medicine; every other user is
\* refused and nothing is written
C15_RevisionPermitted ==
    \A u \in Users, o \in DOMAIN orders :
        needs_revision(orders[o])
        => \A data \in RevisionData :
              OrderListSerializer_valid(data)
              => LET r == submit_revision_view(DB, u, o, data, FALSE) IN
                    IF \/ orders[o].requested_by = u
                       \/ (UserRole[u] \in {"head_veterinary", "veterinary"}
                           /\ orders[o].order_type = "medicine")
                    THEN r.code = 200 /\ r.db.orders[o].status = "pending"
                    ELSE r.code \in {403, 404} /\ r.db = DB

\* C16: completed, cancelled and rejected are terminal: no step changes the
\* status of an order that has one of them
C16_TerminalStays ==
    [][\A o \in DOMAIN orders :
          orders[o].status \in {"completed", "cancelled", "rejected"}
              => orders'[o].status = orders[o].status]_vars

C18_NotesRequired ==
    \A u \in Users, o \in DOMAIN orders :
        UserRole[u] \in {"manager", "super_admin"}
        => /\ orders[o].status = "pending"
              => \A action \in {"rejected", "revision_requested"} :
                    LET r == manager_approve_view(DB, u, o, action, "", FALSE) IN
                       r.code = 400 /\ r.db = DB
           /\ orders[o].status = "procurement_quote_submitted"
              => \A q \in 0..nextQuoteId :
                    LET r == approve_quote_view(DB, u, o, "rejected", q, "", FALSE) IN
                       r.code = 400 /\ r.db = DB

\* the number of rows that the step from d to d2 added for a recipient
NotifiedTimes(d, d2, recipient) ==
    Cardinality({i \in (Len(d.notifications) + 1)..Len(d2.notifications) :
                    d2.notifications[i].recipient = recipient})

\* C19: manager_approve(approved) on a pending order sets approved_by_manager,
\* leaves one ledger row of the order for manager_initial, with action
\* approved, and adds one notification row for each procurement user and one
\* for the requester: exactly one row for each of these recipients and none
\* for anyone else
C19_ApprovedNotifiesOnce ==
    \A u \in Users, o \in DOMAIN orders, notes \in Notes :
        (UserRole[u] \in {"manager", "super_admin"} /\ orders[o].status = "pending")
        => LET r == manager_approve_view(DB, u, o, "approved", notes, FALSE)
               recipients == {p \in Users : UserRole[p] = "procurement"}
                                \cup {orders[o].requested_by}
               rows == {i \in DOMAIN r.db.approvals :
                           /\ r.db.approvals[i].order = o
                           /\ r.db.approvals[i].stage = "manager_initial"}
           IN /\ r.code = 200
              /\ r.db.orders[o].status = "approved_by_manager"
              /\ Cardinality(rows) = 1
              /\ \A i \in rows : r.db.approvals[i].action = "approved"
              /\ \A p \in Users :
                    NotifiedTimes(DB, r.db, p) = IF p \in recipients THEN 1 ELSE 0

\* C20: manager_approve(revision_requested, notes) on a pending order sets
\* revision_requested_by_manager and stores the notes as revision_reason and
\* the caller as revision_requested_by; a successful submit_revision sets the
\* order back to pending and clears revision_reason, revision_requested_by
\* and revision_requested_at, whatever the request body held
C20_RevisionRoundTrip ==
    \A u \in Users, o \in DOMAIN orders :
        /\ (UserRole[u] \in {"manager", "super_admin"} /\ orders[o].status = "pending")
           => \A notes \in Notes \ {""} :
                 LET r == manager_approve_view(DB, u, o, "revision_requested", notes, FALSE)
                 IN /\ r.code = 200
                    /\ r.db.orders[o].status = "revision_requested_by_manager"
                    /\ r.db.orders[o].revision_reason = Some(notes)
                    /\ r.db.orders[o].revision_requested_by = u
                    /\ r.db.orders[o].revision_requested_at # None
        /\ needs_revision(orders[o])
           => \A data \in RevisionData :
                 LET r == submit_revision_view(DB, u, o, data, FALSE) IN
                    r.code = 200
                    => /\ r.db.orders[o].status = "pending"
                       /\ r.db.orders[o].revision_reason = None
                       /\ r.db.orders[o].revision_requested_by = NoUser
                       /\ r.db.orders[o].revision_requested_at = None

C20_RevisionSubmitted ==
    \E o \in DOMAIN orders :
        /\ resp = [op |-> "submit_revision", order |-> o, code |-> 200]
        /\ orders[o].status = "pending"
        /\ orders[o].revision_reason = None
        /\ orders[o].estimated_cost = 120
        /\ ActivitiesOf(o, {"revision_requested"}) # {}
        /\ ActivitiesOf(o, {"revision_submitted"}) # {}

(***************************************************************************)
(* Two create requests in flight.  A worker runs generate_order_number     *)
(* (reads of committed rows) and later runs serializer.save() with the     *)
(* number it obtained; order_number is a unique column, so the INSERT of a *)
(* number that another worker committed meanwhile raises IntegrityError    *)
(* and the request is answered 500 with its transaction rolled back.       *)
(***************************************************************************)
begin_create(u, order_type, n, cost, timestamp) ==
    /\ Cardinality(inflight) < MaxInflight
    /\ Len(orders) + Cardinality(inflight) < MaxOrders
    /\ create_view(DB, u, order_type, n, cost, timestamp, FALSE).code = 201
    /\ inflight' = inflight \cup
          {[user |-> u, order_type |-> order_type, n |-> n, cost |-> cost,
            order_number |-> generate_order_number(DB, order_type, timestamp)]}
    /\ UNCHANGED <<dbvars, resp>>

finish_create(req) ==
    /\ req \in inflight
    /\ IF \E o \in DOMAIN orders : orders[o].order_number = req.order_number
       THEN /\ resp' = [op |-> "create", order |-> 0, code |-> 500]
            /\ UNCHANGED dbvars
       ELSE /\ Store(insert_order(DB, req.user, req.order_type, req.n, req.cost,
                                  req.order_number))
            /\ resp' = [op |-> "create", order |-> Len(orders) + 1, code |-> 201]
    /\ inflight' = inflight \ {req}

NextCreate ==
    \/ \E u \in RevisionRequesters, order_type \in RevisionTypes, n \in 1..MaxItems,
          cost \in Costs, timestamp \in Timestamps :
          begin_create(u, order_type, n, cost, timestamp)
    \/ \E req \in inflight : finish_create(req)

SpecCreate == Init /\ [][NextCreate]_vars

\* C21: two create requests of one order type that are in flight together
\* hold different order numbers, and no two stored orders share an
\* order_number
C21_NumbersDiffer ==
    /\ \A r1, r2 \in inflight :
          (r1 # r2 /\ r1.order_type = r2.order_type)
              => r1.order_number # r2.order_number
    /\ \A o1, o2 \in DOMAIN orders :
          o1 # o2 => orders[o1].order_number # orders[o2].order_number

\* the answers that the calls of every operation on order o get in the
\* present state, by every user and with every request body
Answers(o) ==
    UNION {
        {manager_approve_view(DB, u, o, action, notes, FALSE) :
            action \in Actions, notes \in Notes}
        \cup {approve_view(DB, u, o, action, notes, FALSE) :
            action \in Actions, notes \in Notes}
        \cup {finance_approve_view(DB, u, o, action, notes, FALSE) :
            action \in Actions, notes \in Notes}
        \cup {submit_quote_view(DB, u, o, payload, FALSE) : payload \in QuotePayloads}
        \cup UNION {{approve_quote_view(DB, u, o, action, q, notes, FALSE) :
                        action \in QuoteActions, q \in 0..nextQuoteId} : notes \in Notes}
        \cup {approve_mixed_quote_view(DB, u, o, ids, FALSE) :
            ids \in SeqsUpTo(1..nextQuoteItemId, MaxSelected)}
        \cup {complete_payment_view(DB, u, o, payment_amount, FALSE) :
            payment_amount \in PaymentAmounts}
        \cup {complete_view(DB, u, o, FALSE)}
        \cup {submit_revision_view(DB, u, o, data, FALSE) : data \in RevisionData}
        \cup {split_and_approve_view(DB, u, o, item_groups, in, FALSE) :
            item_groups \in ItemGroups, in \in SplitInputs}
        : u \in Users}

\* the statuses that one successful call can give order o
Outcomes(o) == {r.db.orders[o].status : r \in {a \in Answers(o) : a.code < 400}}

\* C22: every approval stage has an operation for its side branches: a call
\* that rejects the order exists while it is pending, while it is
\* procurement_quote_submitted and while it is quote_approved_by_manager, and
\* a call exists that sets revision_requested_by_manager on a pending order,
\* revision_requested_by_procurement on an order at the procurement stage
\* and revision_requested_by_finance on an order at the finance stage
C22_SideBranches ==
    \A o \in DOMAIN orders :
        /\ orders[o].status = "pending"
              => {"rejected", "revision_requested_by_manager"} \subseteq Outcomes(o)
        /\ orders[o].status = "approved_by_manager"
              => "revision_requested_by_procurement" \in Outcomes(o)
        /\ orders[o].status = "procurement_quote_submitted"
              => "rejected" \in Outcomes(o)
        /\ orders[o].status = "quote_approved_by_manager"
              => {"rejected", "revision_requested_by_finance"} \subseteq Outcomes(o)

(***************************************************************************)
(* The endpoints on orders outside the transition table: the               *)
(* partial_update that OrderViewSet has as a ModelViewSet (PATCH on an     *)
(* order, served with OrderListSerializer) and add_comment.                *)
(***************************************************************************)
\* UpdateModelMixin.partial_update: get_object, the serializer of
\* get_serializer_class, serializer.save()
partial_update_view(d, u, o, data, raised) ==
    LET code == Access(d, u, "partial_update", o) IN
       IF code # 200
       THEN Refuse(d, code, AccessError(code))
       ELSE IF ~OrderListSerializer_valid(data)
       THEN Refuse(d, 400, "validation")
       ELSE Transaction(d, save(d, o, serializer_update(d.orders[o], data)), raised, 200)

\* the OrderComment row is not part of the model; the activity row is
add_comment_view(d, u, o, comment, raised) ==
    LET code == Access(d, u, "add_comment", o) IN
       IF code # 200
       THEN Refuse(d, code, AccessError(code))
       ELSE IF comment = ""
       THEN Refuse(d, 400, "validation")
       ELSE Transaction(d, log_order_activity(d, o, u, "comment_added", None, None),
                        raised, 200)

partial_update(u, o) ==
    /\ o \in DOMAIN orders
    /\ \E data \in Bodies(u, "partial_update", o, RevisionData) :
        Call("partial_update", o, partial_update_view(DB, u, o, data, FALSE))

add_comment(u, o) ==
    /\ o \in DOMAIN orders
    /\ \E comment \in Bodies(u, "add_comment", o, Notes) :
        Call("add_comment", o, add_comment_view(DB, u, o, comment, FALSE))

NextEndpoints ==
    \/ \E u \in Requesters : create(u)
    \/ \E u \in Users, o \in TargetIds : manager_approve(u, o)
    \/ \E u \in Users, o \in TargetIds : partial_update(u, o)
    \/ \E u \in Users, o \in TargetIds : add_comment(u, o)

SpecEndpoints == Init /\ [][NextEndpoints]_vars

\* C23: a call of partial_update or of add_comment, by a user of any role,
\* leaves every field of every Order row as it was
C23_OnlyTransitionsWrite ==
    [][resp'.op \in {"partial_update", "add_comment"} => orders' = orders]_vars

\* C24: the activity rows that a step appends for an order whose status it
\* changes carry the status before the step in previous_status and the
\* status after it in new_status
C24_ActivityRecordsStatus ==
    [][\A o \in DOMAIN orders :
          orders'[o].status # orders[o].status
          => \A i \in (Len(activities) + 1)..Len(activities') :
                activities'[i].order = o
                => /\ activities'[i].previous_status = Some(orders[o].status)
                   /\ activities'[i].new_status = Some(orders'[o].status)]_vars

\* C25: a successful submit_revision adds an approval_needed notification
\* for every user who holds the manager role
C25_RevisionNotifiesManagers ==
    \A u \in Users, o \in DOMAIN orders, data \in RevisionData :
        LET r == submit_revision_view(DB, u, o, data, FALSE) IN
           r.code = 200
           => \A p \in Users :
                 UserRole[p] = "manager"
                 => \E i \in (Len(notifications) + 1)..Len(r.db.notifications) :
                       /\ r.db.notifications[i].recipient = p
                       /\ r.db.notifications[i].order = o
                       /\ r.db.notifications[i].notification_type = "approval_needed"

\* the order item ids that the item quotes of a submission name
ReferencedItems(payload) ==
    UNION {{payload[k].item_quotes[j].order_item_id :
               j \in DOMAIN payload[k].item_quotes} : k \in DOMAIN payload}

\* C26: a call that names a quote, a quote item or an order item that does
\* not exist, or that belongs to another order, is answered not-found and
\* changes nothing: selected_quote_id of approve_quote, the ids of
\* selected_item_quotes of approve_mixed_quote, the order_item_id of the item
\* quotes of submit_quote
C26_UnknownIdsNotFound ==
    \A u \in Users, o \in DOMAIN orders :
        /\ (Access(DB, u, "approve_quote", o) = 200
            /\ orders[o].status = "procurement_quote_submitted")
           => \A q \in 1..nextQuoteId :
                 (~\E x \in QuotesOf(DB, o) : x.id = q)
                 => LET r == approve_quote_view(DB, u, o, "approved", q, "", FALSE) IN
                       r.code = 404 /\ r.db = DB
        /\ (Access(DB, u, "approve_mixed_quote", o) = 200
            /\ orders[o].status = "procurement_quote_submitted")
           => \A ids \in SeqsUpTo(1..nextQuoteItemId, MaxSelected) :
                 (\E k \in DOMAIN ids :
                     ~\E qi \in selected_items_of(DB, o, ids) : qi.id = ids[k])
                 => LET r == approve_mixed_quote_view(DB, u, o, ids, FALSE) IN
                       r.code = 404 /\ r.db = DB
        /\ (Access(DB, u, "submit_quote", o) = 200
            /\ orders[o].status \in {"approved_by_manager", "procurement_quote_submitted"})
           => \A payload \in QuotePayloads :
                 (/\ SubmitQuotesSerializer_valid(payload)
                  /\ ~(ReferencedItems(payload) \subseteq ItemsOf(DB, o)))
                 => LET r == submit_quote_view(DB, u, o, payload, FALSE) IN
                       r.code = 404 /\ r.db = DB

\* C27: every order that is approved_by_manager, procurement_quote_submitted,
\* quote_approved_by_manager or payment_completed has a ledger row with stage
\* manager_initial and action approved, the orders that split_and_approve
\* made or approved included
C27_ApprovedHasLedgerRow ==
    \A o \in DOMAIN orders :
        orders[o].status \in {"approved_by_manager", "procurement_quote_submitted",
                              "quote_approved_by_manager", "payment_completed"}
        => \E i \in RowsOf(o, "manager_initial") : approvals[i].action = "approved"

\* C28: an order that is completed, unless it is the original of a split,
\* has had its payment completed: the log has its payment_completed row after
\* its quote_submitted and quote_approved rows, and the order carries a
\* quote_amount and a payment_amount
C28_CompletedWasPaid ==
    \A o \in DOMAIN orders :
        (orders[o].status = "completed" /\ ActivitiesOf(o, {"status_changed"}) = {})
        => /\ \E i \in ActivitiesOf(o, {"quote_submitted"}),
                 j \in ActivitiesOf(o, {"quote_approved"}),
                 k \in ActivitiesOf(o, {"payment_completed"}) : i < j /\ j < k
           /\ orders[o].quote_amount # None
           /\ orders[o].payment_amount # None

\* C29: every stored order owns at least one OrderItem, the orders that
\* split_and_approve makes included, whatever item groups the request holds
C29_OrderHasItems ==
    \A o \in DOMAIN orders : ItemsOf(DB, o) # {}

\* C30: a successful approve_mixed_quote selects exactly one quote item for
\* every OrderItem of the order: no order item is priced twice and none is
\* left without a selected quote item
C30_EveryItemPricedOnce ==
    \A u \in Users, o \in DOMAIN orders :
        \A ids \in SeqsUpTo(1..nextQuoteItemId, MaxSelected) :
            LET r == approve_mixed_quote_view(DB, u, o, ids, FALSE) IN
               r.code = 200
               => \A i \in ItemsOf(DB, o) :
                     Cardinality({qi \in selected_items_of(DB, o, ids) :
                                     qi.order_item = i}) = 1
====
